---- MODULE Spec2Model ----
(***************************************************************************)
(* Flowerpot (src/main.go): an HTTP front end over a BadgerDB key-value    *)
(* store.  The model has two parts: the value codec (encoding/json applied *)
(* to DataValue) as pure operators, and the server as a state machine of   *)
(* main, the request handlers and the BadgerDB transactions they run.      *)
(***************************************************************************)
EXTENDS Integers, Sequences, FiniteSets, TLC

VARIABLES
    phase,      \* main's position: "seeding", "serving", "exited"
    seeded,     \* sample keys initializeSampleData has already handled
    db,         \* the committed contents of the BadgerDB instance: key -> JSON document or absent
    req,        \* per handler slot: the handler goroutine's position and locals
    last,       \* history: per key, the outcome of the last committed write
    ops,        \* number of events from outside so far: requests accepted, process restarts
    faulted,    \* an engine or encoder call has failed in this run
    handle,     \* the process's *badger.DB: times opened, times closed, calls main has deferred
    boots,      \* number of times the process has been started on the data directory
    cpc,        \* codec harness: position
    cin,        \* codec harness: the DataValue handed to json.Marshal
    cenc,       \* codec harness: the document json.Marshal produced
    cdec        \* codec harness: what json.Unmarshal returned

vars == <<phase, seeded, db, req, last, ops, faulted, handle, boots, cpc, cin, cenc, cdec>>
serverVars == <<phase, seeded, db, req, last, ops, faulted, handle, boots>>
codecVars == <<cpc, cin, cenc, cdec>>

(***************************************************************************)
(* Bounds of the model.                                                    *)
(***************************************************************************)
MaxOps == 2         \* requests and restarts in one run of the model
MaxStrLen == 2      \* runs in a string handed to the codec harness
MaxDataLen == 3     \* bytes in a Data slice handed to the codec harness

(***************************************************************************)
(* Go values.  A string is a sequence of runs: a run is either a stretch   *)
(* of characters json copies verbatim ("text/plain") or one character it   *)
(* treats specially.  "xFF" stands for a byte that is not valid UTF-8 and  *)
(* "uFFFD" for the Unicode replacement character.  A []byte is a record:   *)
(* the nil slice and the empty non-nil slice both have length 0.           *)
(***************************************************************************)
NilBytes == [isNil |-> TRUE, bytes |-> <<>>]

Bytes(s) == [isNil |-> FALSE, bytes |-> s]

DataValue(c, ct, d) == [Content |-> c, ContentType |-> ct, Data |-> d]

ZeroDataValue == DataValue(<<>>, <<>>, NilBytes)

RECURSIVE SeqsUpTo(_, _)
SeqsUpTo(S, n) ==
    IF n = 0 THEN {<<>>}
    ELSE LET shorter == SeqsUpTo(S, n - 1)
         IN  shorter \cup {Append(s, x) : s \in {t \in shorter : Len(t) = n - 1}, x \in S}

(***************************************************************************)
(* encoding/json, string side.  Marshal escapes the quote, the backslash,  *)
(* control characters and (HTML escaping is on by default) < > &; it       *)
(* coerces invalid UTF-8 to U+FFFD.  Everything else is copied.            *)
(***************************************************************************)
EscapeRun(run) ==
    CASE run = "\"" -> "\\\""
      [] run = "\\" -> "\\\\"
      [] run = "\n" -> "\\n"
      [] run = "\t" -> "\\t"
      [] run = "<" -> "\\u003c"
      [] run = ">" -> "\\u003e"
      [] run = "&" -> "\\u0026"
      [] run = "xFF" -> "\\ufffd"
      [] OTHER -> run

QuoteString(s) == [i \in 1..Len(s) |-> EscapeRun(s[i])]

\* A raw quote, backslash or control character inside a JSON string literal
\* is a syntax error for the decoder.
RawIllegal(tok) == tok \in {"\"", "\\", "\n", "\t"}

UnescapeRun(tok) ==
    CASE tok = "\\\"" -> "\""
      [] tok = "\\\\" -> "\\"
      [] tok = "\\n" -> "\n"
      [] tok = "\\t" -> "\t"
      [] tok = "\\u003c" -> "<"
      [] tok = "\\u003e" -> ">"
      [] tok = "\\u0026" -> "&"
      [] tok = "\\ufffd" -> "uFFFD"
      [] tok = "xFF" -> "uFFFD"
      [] OTHER -> tok

UnquoteString(q) == [i \in 1..Len(q) |-> UnescapeRun(q[i])]

StringLiteralOk(q) == \A i \in 1..Len(q) : ~RawIllegal(q[i])

(***************************************************************************)
(* encoding/base64 (StdEncoding), which encoding/json applies to []byte.   *)
(***************************************************************************)
B64Alphabet ==
    << "A", "B", "C", "D", "E", "F", "G", "H", "I", "J", "K", "L", "M",
       "N", "O", "P", "Q", "R", "S", "T", "U", "V", "W", "X", "Y", "Z",
       "a", "b", "c", "d", "e", "f", "g", "h", "i", "j", "k", "l", "m",
       "n", "o", "p", "q", "r", "s", "t", "u", "v", "w", "x", "y", "z",
       "0", "1", "2", "3", "4", "5", "6", "7", "8", "9", "+", "/" >>

B64Pad == "="

B64Char(n) == B64Alphabet[n + 1]

B64Index(c) == (CHOOSE i \in 1..Len(B64Alphabet) : B64Alphabet[i] = c) - 1

IsB64Char(c) == \E i \in 1..Len(B64Alphabet) : B64Alphabet[i] = c

RECURSIVE Base64Encode(_)
Base64Encode(b) ==
    IF Len(b) = 0 THEN <<>>
    ELSE IF Len(b) = 1 THEN
        << B64Char(b[1] \div 4), B64Char((b[1] % 4) * 16), B64Pad, B64Pad >>
    ELSE IF Len(b) = 2 THEN
        << B64Char(b[1] \div 4),
           B64Char((b[1] % 4) * 16 + b[2] \div 16),
           B64Char((b[2] % 16) * 4),
           B64Pad >>
    ELSE
        << B64Char(b[1] \div 4),
           B64Char((b[1] % 4) * 16 + b[2] \div 16),
           B64Char((b[2] % 16) * 4 + b[3] \div 64),
           B64Char(b[3] % 64) >>
        \o Base64Encode(SubSeq(b, 4, Len(b)))

\* The input is well formed: whole quanta of four characters, padding only
\* at the end of the last one.
Base64Ok(s) ==
    /\ Len(s) % 4 = 0
    /\ \A i \in 1..Len(s) :
        \/ IsB64Char(s[i])
        \/ /\ s[i] = B64Pad
           /\ i > Len(s) - 2
           /\ \A j \in i..Len(s) : s[j] = B64Pad

RECURSIVE Base64Decode(_)
Base64Decode(s) ==
    IF Len(s) = 0 THEN <<>>
    ELSE LET a == B64Index(s[1])
             b == B64Index(s[2])
         IN  IF s[3] = B64Pad THEN << a * 4 + b \div 16 >>
             ELSE LET c == B64Index(s[3])
                  IN  IF s[4] = B64Pad
                      THEN << a * 4 + b \div 16, (b % 16) * 16 + c \div 4 >>
                      ELSE << a * 4 + b \div 16,
                              (b % 16) * 16 + c \div 4,
                              (c % 4) * 64 + B64Index(s[4]) >>
                           \o Base64Decode(SubSeq(s, 5, Len(s)))

(***************************************************************************)
(* encoding/json on DataValue.  A JSON document is the list of its         *)
(* members in order, each a name and a string literal (quoted runs, or     *)
(* base64 characters for "data"); valid is what the decoder's syntax scan  *)
(* answers.  The tag `json:"data,omitempty"` drops the member when the     *)
(* slice has length 0, nil or not.                                         *)
(***************************************************************************)
Member(n, s) == [name |-> n, str |-> s]

JsonDoc(ms) == [valid |-> TRUE, members |-> ms]

InvalidJson == [valid |-> FALSE, members |-> <<>>]

MarshalKeepEmpty(v) ==
    JsonDoc(<< Member("content", QuoteString(v.Content)),
               Member("content_type", QuoteString(v.ContentType)) >>
            \o (IF v.Data.isNil THEN <<>>
                ELSE << Member("data", Base64Encode(v.Data.bytes)) >>))

Marshal(v) ==
    JsonDoc(<< Member("content", QuoteString(v.Content)),
               Member("content_type", QuoteString(v.ContentType)) >>
            \o (IF Len(v.Data.bytes) = 0 THEN <<>>
                ELSE << Member("data", Base64Encode(v.Data.bytes)) >>))

MemberOk(m) ==
    IF m.name = "data" THEN Base64Ok(m.str) ELSE StringLiteralOk(m.str)

\* One member applied to the value being filled; unknown names are ignored.
SetField(v, m) ==
    CASE m.name = "content" -> [v EXCEPT !.Content = UnquoteString(m.str)]
      [] m.name = "content_type" -> [v EXCEPT !.ContentType = UnquoteString(m.str)]
      [] m.name = "data" -> [v EXCEPT !.Data = Bytes(Base64Decode(m.str))]
      [] OTHER -> v

RECURSIVE Fill(_, _)
Fill(v, ms) ==
    IF Len(ms) = 0 THEN v ELSE Fill(SetField(v, Head(ms)), Tail(ms))

\* json.Unmarshal into a zero DataValue: [err, value].
Unmarshal(doc) ==
    IF doc.valid /\ \A i \in 1..Len(doc.members) : MemberOk(doc.members[i])
    THEN [err |-> FALSE, value |-> Fill(ZeroDataValue, doc.members)]
    ELSE [err |-> TRUE, value |-> ZeroDataValue]

(***************************************************************************)
(* Keys, sample data and the inputs clients send.                          *)
(***************************************************************************)
SampleKeys == {"alphabet/soup", "config/settings.json", "docs/readme"}

\* The path variable of the route "/{path:.*}": empty for "/", and keys one
\* of which is a prefix of the other.
ClientPaths == {"", "docs", "docs/readme"}

Keys == SampleKeys \cup ClientPaths

Conns == {"c1", "c2"}

Methods == {"GET", "POST", "PUT", "DELETE", "PATCH"}

TextPlain == <<"text/plain">>

OctetStream == <<"application/octet-stream">>

samples(key) ==
    CASE key = "alphabet/soup" ->
            DataValue(<<"Delicious alphabet soup recipe">>, TextPlain, NilBytes)
      [] key = "config/settings.json" ->
            DataValue(<< "{", "\"", "theme", "\"", ": ", "\"", "dark", "\"", ", ",
                         "\"", "language", "\"", ": ", "\"", "en", "\"", "}" >>,
                      <<"application/json">>, NilBytes)
      [] key = "docs/readme" ->
            DataValue(<< "# Welcome to the API", "\n", "\n",
                         "This is a sample readme file." >>,
                      <<"text/markdown">>, NilBytes)

PngBytes == <<137, 80, 78, 71>>

\* Bodies of POST requests, as JSON documents.
PostBodies ==
    { InvalidJson,
      JsonDoc(<< Member("content", <<"# hi">>), Member("content_type", <<>>) >>),
      JsonDoc(<< Member("content", <<"# hi">>),
                 Member("content_type", <<"text/markdown">>) >>),
      JsonDoc(<< Member("content", <<"logo">>),
                 Member("content_type", <<"image/png">>),
                 Member("data", Base64Encode(PngBytes)) >>) }

\* Raw PUT requests: the body, the Content-Type header ("" when absent) and
\* whether reading the body fails.
PutInputs ==
    { [body |-> <<>>, header |-> <<>>, readErr |-> FALSE],
      [body |-> PngBytes, header |-> <<"image/png">>, readErr |-> FALSE],
      [body |-> <<>>, header |-> TextPlain, readErr |-> TRUE] }

NoInput == [body |-> <<>>, header |-> <<>>, readErr |-> FALSE]

\* handlePost and handlePut get as far as storeValue with this request.
Storable(method, doc, input) ==
    \/ method = "POST" /\ doc.valid /\ Len(doc.members) > 1 /\ Len(doc.members[2].str) > 0
    \/ method = "PUT" /\ ~input.readErr

\* The requests clients send.  Only POST has a JSON body and only PUT a raw
\* one.  What a handler rejects before it calls the store does not depend
\* on the path, so such requests go to one path; requests with the empty
\* path are a GET, a DELETE and a POST that would otherwise store.
Requests ==
    { r \in [method : Methods, path : ClientPaths,
             doc : PostBodies, input : PutInputs \cup {NoInput}] :
        /\ (r.method = "POST") \/ (r.doc = InvalidJson)
        /\ (r.method = "PUT") \/ (r.input = NoInput)
        /\ (r.method = "PUT") => (r.input \in PutInputs)
        /\ r.method = "PATCH" => r.path = "docs"
        /\ (r.method \in {"POST", "PUT"} /\ ~Storable(r.method, r.doc, r.input))
           => r.path = "docs"
        /\ r.path = ""
           => \/ r.method \in {"GET", "DELETE"}
              \/ r.method = "POST" /\ Storable(r.method, r.doc, r.input) /\ Len(r.doc.members) = 2 }

(***************************************************************************)
(* The engine: committed contents, and what a transaction buffers.         *)
(***************************************************************************)
Absent == [present |-> FALSE, doc |-> JsonDoc(<<>>)]

Present(doc) == [present |-> TRUE, doc |-> doc]

NoWrite == [kind |-> "none", key |-> "", doc |-> JsonDoc(<<>>)]

\* txn.Set and txn.Delete buffer one write in the transaction.
TxnSet(key, doc) == [kind |-> "set", key |-> key, doc |-> doc]

TxnDelete(key) == [kind |-> "delete", key |-> key, doc |-> JsonDoc(<<>>)]

\* A commit that applies the write to every key.
CommitEverywhere(d, w) ==
    [k \in DOMAIN d |-> IF w.kind = "set" THEN Present(w.doc) ELSE Absent]

\* A commit that drops a Set over a key that already holds a value.
CommitKeepFirst(d, w) ==
    CASE w.kind = "set" /\ ~d[w.key].present -> [d EXCEPT ![w.key] = Present(w.doc)]
      [] w.kind = "delete" -> [d EXCEPT ![w.key] = Absent]
      [] OTHER -> d

\* A commit that ignores a buffered delete.
CommitNoDelete(d, w) ==
    CASE w.kind = "set" -> [d EXCEPT ![w.key] = Present(w.doc)]
      [] OTHER -> d

\* A commit that merges a Set into the document already there: members the
\* new document lacks are kept from the old one.
CommitMerge(d, w) ==
    CASE w.kind = "set" /\ d[w.key].present ->
            LET old == d[w.key].doc.members
                new == w.doc.members
                kept == SelectSeq(old, LAMBDA m :
                            \A i \in 1..Len(new) : new[i].name # m.name)
            IN  [d EXCEPT ![w.key] = Present(JsonDoc(new \o kept))]
      [] w.kind = "set" -> [d EXCEPT ![w.key] = Present(w.doc)]
      [] w.kind = "delete" -> [d EXCEPT ![w.key] = Absent]
      [] OTHER -> d

\* Key k lies under key p when keys are read as directories.
Under(k, p) == <<k, p>> \in {<<"docs/readme", "docs">>}

\* A commit that treats keys as a tree: a write to p also reaches the keys
\* under p.
CommitTree(d, w) ==
    CASE w.kind = "set" ->
            [k \in DOMAIN d |-> IF k = w.key \/ Under(k, w.key) THEN Present(w.doc) ELSE d[k]]
      [] w.kind = "delete" ->
            [k \in DOMAIN d |-> IF k = w.key \/ Under(k, w.key) THEN Absent ELSE d[k]]
      [] OTHER -> d

\* txn.Commit: the buffered write becomes the key's committed state.
Commit(d, w) ==
    CASE w.kind = "set" -> [d EXCEPT ![w.key] = Present(w.doc)]
      [] w.kind = "delete" -> [d EXCEPT ![w.key] = Absent]
      [] OTHER -> d

NoResult == [err |-> "unset", hasValue |-> FALSE, value |-> ZeroDataValue]

Failed(e) == [err |-> e, hasValue |-> FALSE, value |-> ZeroDataValue]

\* A getValue that answers a missing key with a zero value and no error.
getValueEmptyOnMissing(d, key, engineErr) ==
    IF engineErr THEN Failed("engine")
    ELSE IF ~d[key].present THEN [err |-> "none", hasValue |-> TRUE, value |-> ZeroDataValue]
    ELSE LET u == Unmarshal(d[key].doc)
         IN  IF u.err THEN Failed("decode")
             ELSE [err |-> "none", hasValue |-> TRUE, value |-> u.value]

\* getValue: a read-only transaction that looks the key up in the committed
\* state and decodes it.  engineErr: txn.Get or item.Value fails.
getValue(d, key, engineErr) ==
    IF engineErr THEN Failed("engine")
    ELSE IF ~d[key].present THEN Failed("notfound")
    ELSE LET u == Unmarshal(d[key].doc)
         IN  IF u.err THEN Failed("decode")
             ELSE [err |-> "none", hasValue |-> TRUE, value |-> u.value]

(***************************************************************************)
(* HTTP responses.                                                         *)
(***************************************************************************)
NoResp == [status |-> 0, ctype |-> <<>>, text |-> <<>>, bytes |-> <<>>]

HttpError(msg, code) ==
    [status |-> code, ctype |-> <<"text/plain; charset=utf-8">>, text |-> <<msg>>,
     bytes |-> <<>>]

JsonSuccess(msg) ==
    [status |-> 200, ctype |-> <<"application/json">>, text |-> <<"success", msg>>,
     bytes |-> <<>>]

\* handleGet's and handleDelete's answer to a getValue error.
LookupError(err) ==
    IF err = "notfound" THEN HttpError("Path not found", 404)
    ELSE HttpError("Database error", 500)

\* handleGet's answer once getValue has succeeded.
ServeTextFirst(value) ==
    IF Len(value.Content) > 0
    THEN [status |-> 200, ctype |-> value.ContentType, text |-> value.Content, bytes |-> <<>>]
    ELSE [status |-> 200, ctype |-> value.ContentType, text |-> <<>>,
          bytes |-> value.Data.bytes]

Serve(value) ==
    IF Len(value.Data.bytes) > 0
    THEN [status |-> 200, ctype |-> value.ContentType, text |-> <<>>,
          bytes |-> value.Data.bytes]
    ELSE [status |-> 200, ctype |-> value.ContentType, text |-> value.Content, bytes |-> <<>>]

\* An answer that tells an encoding failure (400) from an engine failure.
StoreErrorByKind(err) ==
    IF err = "encoding" THEN HttpError("Failed to store data", 400)
    ELSE HttpError("Failed to store data", 500)

\* handlePost's and handlePut's answer to a storeValue error.
StoreError(err) == HttpError("Failed to store data", 500)

(***************************************************************************)
(* The server.  A connection carries one request at a time; its handler    *)
(* goroutine runs between the transactions it opens, and goroutines of     *)
(* different connections interleave at those transactions.                 *)
(***************************************************************************)
\* Failures of the engine and of the encoder are rare events: a run of the
\* model has at most one.  Whether a step may fail now, and the record of it.
MayFail == IF faulted THEN {FALSE} ELSE BOOLEAN

Count(failed) == faulted \/ failed

IdleReq ==
    [pc |-> "idle", method |-> "", path |-> "", doc |-> InvalidJson, input |-> NoInput,
     val |-> ZeroDataValue, pending |-> NoWrite, got |-> NoResult, err |-> "unset",
     resp |-> NoResp, calls |-> {}, overlap |-> FALSE]

NoHistory == [kind |-> "none", value |-> ZeroDataValue, replaced |-> FALSE]

\* The history entry of a write that commits over the committed state cur.
Wrote(kind, value, cur) == [kind |-> kind, value |-> value, replaced |-> cur.present]

InFlight(c) == req[c].pc \notin {"idle", "done"}

\* The order in which free slots are taken.
Before(c, d) == c = "c1" /\ d = "c2"

\* The handler returns: its response is written and its transaction is gone.
Respond(r, response) == [r EXCEPT !.pc = "done", !.resp = response, !.pending = NoWrite]

\* main after badger.Open has succeeded: the handle is open and main has
\* deferred its Close.
Opened == [opens |-> 1, closes |-> 0, deferred |-> <<"db.Close">>]

\* main after badger.Open has failed: there is no handle and nothing is
\* deferred.
NotOpened == [opens |-> 0, closes |-> 0, deferred |-> <<>>]

Init ==
    /\ phase = "seeding"
    /\ seeded = {}
    /\ db = [k \in Keys |-> Absent]
    /\ req = [c \in Conns |-> IdleReq]
    /\ last = [k \in Keys |-> NoHistory]
    /\ ops = 0
    /\ faulted = FALSE
    /\ handle = Opened
    /\ boots = 1
    /\ cpc = "off"
    /\ cin = ZeroDataValue
    /\ cenc = JsonDoc(<<>>)
    /\ cdec = [err |-> FALSE, value |-> ZeroDataValue]

\* initializeSampleData, one iteration of its loop (Go ranges over the map
\* in no fixed order): storeValue(key, value), a failure is only logged.
SeedSample(key) ==
    /\ phase = "seeding"
    /\ key \in SampleKeys \ seeded
    /\ seeded' = seeded \cup {key}
    /\ \E engineErr \in MayFail :
        /\ faulted' = Count(engineErr)
        /\ IF engineErr
           THEN UNCHANGED <<db, last>>
           ELSE /\ db' = Commit(db, TxnSet(key, Marshal(samples(key))))
                /\ last' = [last EXCEPT ![key] = Wrote("put", samples(key), db[key])]
    /\ UNCHANGED <<phase, req, ops, handle, boots, codecVars>>

\* main, after initializeSampleData: the router is set up and the listener
\* starts serving.
StartServing ==
    /\ phase = "seeding"
    /\ seeded = SampleKeys
    /\ phase' = "serving"
    /\ UNCHANGED <<seeded, db, req, last, ops, faulted, handle, boots, codecVars>>

\* A handlePost that does not look at content_type.
ParsePostNoTypeCheck(doc) ==
    LET u == Unmarshal(doc)
    IN  IF u.err THEN [ok |-> FALSE, value |-> ZeroDataValue,
                       resp |-> HttpError("Invalid JSON", 400)]
        ELSE [ok |-> TRUE, value |-> u.value, resp |-> NoResp]

\* handlePost up to the call of storeValue: [ok, value, resp].
ParsePost(doc) ==
    LET u == Unmarshal(doc)
    IN  IF u.err THEN [ok |-> FALSE, value |-> ZeroDataValue,
                       resp |-> HttpError("Invalid JSON", 400)]
        ELSE IF Len(u.value.ContentType) = 0
        THEN [ok |-> FALSE, value |-> ZeroDataValue,
              resp |-> HttpError("content_type is required", 400)]
        ELSE [ok |-> TRUE, value |-> u.value, resp |-> NoResp]

\* A handlePut that stores the header as it came.
ParsePutNoDefault(input) ==
    IF input.readErr
    THEN [ok |-> FALSE, value |-> ZeroDataValue, resp |-> HttpError("Failed to read body", 400)]
    ELSE [ok |-> TRUE, value |-> DataValue(<<>>, input.header, Bytes(input.body)),
          resp |-> NoResp]

\* handlePut up to the call of storeValue: io.ReadAll returns a non-nil
\* slice, the Content-Type header defaults to application/octet-stream.
ParsePut(input) ==
    IF input.readErr
    THEN [ok |-> FALSE, value |-> ZeroDataValue, resp |-> HttpError("Failed to read body", 400)]
    ELSE [ok |-> TRUE,
          value |-> DataValue(<<>>,
                              IF Len(input.header) = 0 THEN OctetStream ELSE input.header,
                              Bytes(input.body)),
          resp |-> NoResp]

\* A handlePath that dispatches without looking at the path.
RouteNoPathCheck(r, method, path, doc, input) ==
    LET base == [IdleReq EXCEPT !.method = method, !.path = path, !.doc = doc,
                                !.input = input]
    IN  CASE method = "GET" -> [base EXCEPT !.pc = "get"]
          [] method = "DELETE" -> [base EXCEPT !.pc = "del_get"]
          [] method = "POST" ->
                LET p == ParsePost(doc)
                IN  IF p.ok THEN [base EXCEPT !.pc = "update", !.val = p.value]
                    ELSE Respond(base, p.resp)
          [] method = "PUT" ->
                LET p == ParsePut(input)
                IN  IF p.ok THEN [base EXCEPT !.pc = "update", !.val = p.value]
                    ELSE Respond(base, p.resp)
          [] OTHER -> Respond(base, HttpError("Method not allowed", 405))

\* handlePath, and the handler it dispatches to up to that handler's first
\* transaction: the request record the goroutine continues with.
Route(r, method, path, doc, input) ==
    LET base == [IdleReq EXCEPT !.method = method, !.path = path, !.doc = doc,
                                !.input = input]
    IN  IF path = "" THEN Respond(base, HttpError("Path is required", 400))
        ELSE CASE method = "GET" -> [base EXCEPT !.pc = "get"]
               [] method = "DELETE" -> [base EXCEPT !.pc = "del_get"]
               [] method = "POST" ->
                     LET p == ParsePost(doc)
                     IN  IF p.ok THEN [base EXCEPT !.pc = "update", !.val = p.value]
                         ELSE Respond(base, p.resp)
               [] method = "PUT" ->
                     LET p == ParsePut(input)
                     IN  IF p.ok THEN [base EXCEPT !.pc = "update", !.val = p.value]
                         ELSE Respond(base, p.resp)
               [] OTHER -> Respond(base, HttpError("Method not allowed", 405))

\* The server starts a handler goroutine for a request that arrives: the
\* request takes the first slot no handler is running in.  overlap records
\* that the handler runs while another slot's handler is running.
Accept(c) ==
    /\ phase = "serving"
    /\ ~InFlight(c)
    /\ \A d \in Conns : ~InFlight(d) => ~Before(d, c)
    /\ ops < MaxOps
    /\ ops' = ops + 1
    /\ \E q \in Requests :
          LET r == Route(req[c], q.method, q.path, q.doc, q.input)
              busy == {d \in Conns \ {c} : InFlight(d)}
          IN  req' = [d \in Conns |->
                        IF d = c THEN [r EXCEPT !.overlap = (r.pc # "done" /\ busy # {})]
                        ELSE IF d \in busy /\ r.pc # "done"
                             THEN [req[d] EXCEPT !.overlap = TRUE]
                             ELSE req[d]]
    /\ UNCHANGED <<phase, seeded, db, last, faulted, handle, boots, codecVars>>

\* A handleGet that stores an empty value at a key it did not find.
HandleGetCreating(c) ==
    /\ req[c].pc = "get"
    /\ \E engineErr \in MayFail :
        LET g == getValue(db, req[c].path, engineErr)
            r == [req[c] EXCEPT !.got = g, !.calls = @ \cup {"getValue"}]
        IN  /\ req' = [req EXCEPT ![c] =
                      IF g.err # "none" THEN Respond(r, LookupError(g.err))
                      ELSE Respond(r, Serve(g.value))]
            /\ db' = IF g.err = "notfound"
                     THEN Commit(db, TxnSet(r.path, Marshal(ZeroDataValue)))
                     ELSE db
            /\ faulted' = Count(engineErr)
    /\ UNCHANGED <<phase, seeded, last, ops, handle, boots, codecVars>>

\* handleGet: getValue, then the response.
HandleGet(c) ==
    /\ req[c].pc = "get"
    /\ \E engineErr \in MayFail :
        LET g == getValue(db, req[c].path, engineErr)
            r == [req[c] EXCEPT !.got = g, !.calls = @ \cup {"getValue"}]
        IN  /\ req' = [req EXCEPT ![c] =
                      IF g.err # "none" THEN Respond(r, LookupError(g.err))
                      ELSE Respond(r, Serve(g.value))]
        /\ faulted' = Count(engineErr)
    /\ UNCHANGED <<phase, seeded, db, last, ops, handle, boots, codecVars>>

\* A handleDelete that goes on to deleteValue when getValue reports a
\* missing key.
HandleDeleteNoCheck(c) ==
    /\ req[c].pc = "del_get"
    /\ \E engineErr \in MayFail :
        LET g == getValue(db, req[c].path, engineErr)
            r == [req[c] EXCEPT !.got = g, !.calls = @ \cup {"getValue"}]
        IN  /\ req' = [req EXCEPT ![c] =
                      IF g.err \notin {"none", "notfound"} THEN Respond(r, LookupError(g.err))
                      ELSE [r EXCEPT !.pc = "del_update"]]
            /\ faulted' = Count(engineErr)
    /\ UNCHANGED <<phase, seeded, db, last, ops, handle, boots, codecVars>>

\* handleDelete, first half: the existence check through getValue.
HandleDeleteCheck(c) ==
    /\ req[c].pc = "del_get"
    /\ \E engineErr \in MayFail :
        LET g == getValue(db, req[c].path, engineErr)
            r == [req[c] EXCEPT !.got = g, !.calls = @ \cup {"getValue"}]
        IN  /\ req' = [req EXCEPT ![c] =
                      IF g.err # "none" THEN Respond(r, LookupError(g.err))
                      ELSE [r EXCEPT !.pc = "del_update"]]
        /\ faulted' = Count(engineErr)
    /\ UNCHANGED <<phase, seeded, db, last, ops, handle, boots, codecVars>>

\* deleteValue, inside db.Update: txn.Delete buffers the delete, or fails.
DeleteTxn(c) ==
    /\ req[c].pc = "del_update"
    /\ \E txnErr \in MayFail :
        LET r == [req[c] EXCEPT !.calls = @ \cup {"deleteValue"}]
        IN  /\ req' = [req EXCEPT ![c] =
                      IF txnErr
                      THEN Respond([r EXCEPT !.err = "engine"],
                                   HttpError("Failed to delete data", 500))
                      ELSE [r EXCEPT !.pc = "del_commit", !.pending = TxnDelete(r.path)]]
            /\ faulted' = Count(txnErr)
    /\ UNCHANGED <<phase, seeded, db, last, ops, handle, boots, codecVars>>

\* deleteValue, db.Update's commit, and the rest of handleDelete.
DeleteCommit(c) ==
    /\ req[c].pc = "del_commit"
    /\ \E engineErr \in MayFail :
        /\ faulted' = Count(engineErr)
        /\ IF engineErr
           THEN /\ req' = [req EXCEPT ![c] =
                             Respond([@ EXCEPT !.err = "engine"],
                                     HttpError("Failed to delete data", 500))]
                /\ UNCHANGED <<db, last>>
           ELSE /\ db' = Commit(db, req[c].pending)
                /\ last' = [last EXCEPT ![req[c].path] =
                               Wrote("delete", ZeroDataValue, db[req[c].path])]
                /\ req' = [req EXCEPT ![c] =
                             Respond([@ EXCEPT !.err = "none"], JsonSuccess("Data deleted"))]
    /\ UNCHANGED <<phase, seeded, ops, handle, boots, codecVars>>

\* A storeValue whose txn.Set writes through to the committed contents
\* before the commit.
StoreTxnWriteThrough(c) ==
    /\ req[c].pc = "update"
    /\ \E err \in {"none"} \cup (IF faulted THEN {} ELSE {"encoding", "engine"}) :
        LET r == [req[c] EXCEPT !.calls = @ \cup {"storeValue"}]
        IN  /\ req' = [req EXCEPT ![c] =
                      IF err # "none" THEN Respond([r EXCEPT !.err = err], StoreError(err))
                      ELSE [r EXCEPT !.pc = "commit",
                                     !.pending = TxnSet(r.path, Marshal(r.val))]]
            /\ db' = IF err # "none" THEN db
                     ELSE Commit(db, TxnSet(r.path, Marshal(r.val)))
            /\ faulted' = Count(err # "none")
    /\ UNCHANGED <<phase, seeded, last, ops, handle, boots, codecVars>>

\* storeValue, inside db.Update: json.Marshal, then txn.Set buffers the
\* write; either may return an error, which db.Update hands back.
StoreTxn(c) ==
    /\ req[c].pc = "update"
    /\ \E err \in {"none"} \cup (IF faulted THEN {} ELSE {"encoding", "engine"}) :
        LET r == [req[c] EXCEPT !.calls = @ \cup {"storeValue"}]
        IN  /\ req' = [req EXCEPT ![c] =
                      IF err # "none" THEN Respond([r EXCEPT !.err = err], StoreError(err))
                      ELSE [r EXCEPT !.pc = "commit",
                                     !.pending = TxnSet(r.path, Marshal(r.val))]]
            /\ faulted' = Count(err # "none")
    /\ UNCHANGED <<phase, seeded, db, last, ops, handle, boots, codecVars>>

\* storeValue, db.Update's commit, and the rest of handlePost / handlePut.
StoreCommit(c) ==
    /\ req[c].pc = "commit"
    /\ \E engineErr \in MayFail :
        /\ faulted' = Count(engineErr)
        /\ IF engineErr
           THEN /\ req' = [req EXCEPT ![c] =
                             Respond([@ EXCEPT !.err = "engine"], StoreError("engine"))]
                /\ UNCHANGED <<db, last>>
           ELSE /\ db' = Commit(db, req[c].pending)
                /\ last' = [last EXCEPT ![req[c].path] =
                               Wrote("put", req[c].val, db[req[c].path])]
                /\ req' = [req EXCEPT ![c] =
                             Respond([@ EXCEPT !.err = "none"], JsonSuccess("Data stored"))]
    /\ UNCHANGED <<phase, seeded, ops, handle, boots, codecVars>>

\* main's last statement, log.Fatal(http.ListenAndServe(":8080", r)):
\* ListenAndServe returns only with an error (the port cannot be bound, the
\* listener fails), and log.Fatal then calls os.Exit(1).  os.Exit ends the
\* process at once: deferred calls are not run, so the deferred db.Close
\* stays where it is.  Handler goroutines end with the process; the step is
\* taken between requests, a handler in flight has committed nothing.
ListenAndServeFails ==
    /\ phase = "serving"
    /\ \A c \in Conns : ~InFlight(c)
    /\ phase' = "exited"
    /\ req' = [c \in Conns |-> IdleReq]
    /\ UNCHANGED <<seeded, db, last, ops, faulted, handle, boots, codecVars>>

\* The program is started again on the same ./data directory: main from
\* its first line.  badger.Open either fails, and log.Fatal ends the
\* process, or returns a handle on what the directory holds, and main goes
\* on to initializeSampleData.
Restart ==
    /\ phase = "exited"
    /\ ops < MaxOps
    /\ ops' = ops + 1
    /\ boots' = boots + 1
    /\ seeded' = {}
    /\ \E openErr \in MayFail :
        /\ faulted' = Count(openErr)
        /\ handle' = IF openErr THEN NotOpened ELSE Opened
        /\ phase' = IF openErr THEN "exited" ELSE "seeding"
    /\ UNCHANGED <<db, req, last, codecVars>>

Next ==
    \/ \E key \in SampleKeys : SeedSample(key)
    \/ StartServing
    \/ \E c \in Conns : Accept(c)
    \/ \E c \in Conns : HandleGet(c)
    \/ \E c \in Conns : HandleDeleteCheck(c)
    \/ \E c \in Conns : DeleteTxn(c)
    \/ \E c \in Conns : DeleteCommit(c)
    \/ \E c \in Conns : StoreTxn(c)
    \/ \E c \in Conns : StoreCommit(c)
    \/ ListenAndServeFails
    \/ Restart

Spec == Init /\ [][Next]_vars

(***************************************************************************)
(* The codec on its own: json.Marshal as storeValue calls it, then         *)
(* json.Unmarshal as getValue calls it, on every DataValue of a bounded    *)
(* set (any Go string, nil, empty and non-empty slices).                   *)
(***************************************************************************)
CodecRuns == {"a", "\"", "<", "\n", "xFF"}

CodecBytes == {0, 137, 255}

CodecInputs ==
    { DataValue(c, ct, d) :
        c \in SeqsUpTo(CodecRuns, MaxStrLen),
        ct \in SeqsUpTo({"text/plain", "xFF"}, 1),
        d \in {NilBytes} \cup {Bytes(b) : b \in SeqsUpTo(CodecBytes, MaxDataLen)} }

InitCodec ==
    /\ phase = "seeding"
    /\ seeded = {}
    /\ db = [k \in Keys |-> Absent]
    /\ req = [c \in Conns |-> IdleReq]
    /\ last = [k \in Keys |-> NoHistory]
    /\ ops = 0
    /\ faulted = FALSE
    /\ handle = Opened
    /\ boots = 1
    /\ cpc = "input"
    /\ cin \in CodecInputs
    /\ cenc = JsonDoc(<<>>)
    /\ cdec = [err |-> FALSE, value |-> ZeroDataValue]

Encode ==
    /\ cpc = "input"
    /\ cenc' = Marshal(cin)
    /\ cpc' = "encoded"
    /\ UNCHANGED <<cin, cdec, serverVars>>

Decode ==
    /\ cpc = "encoded"
    /\ cdec' = Unmarshal(cenc)
    /\ cpc' = "decoded"
    /\ UNCHANGED <<cin, cenc, serverVars>>

NextCodec == Encode \/ Decode

SpecCodec == InitCodec /\ [][NextCodec]_vars

(***************************************************************************)
(* Vocabulary of the properties.                                           *)
(***************************************************************************)
\* Equal in Content, ContentType and the bytes of Data.
SameValue(a, b) ==
    /\ a.Content = b.Content
    /\ a.ContentType = b.ContentType
    /\ a.Data.bytes = b.Data.bytes

\* A Go string that is well-formed UTF-8: a sequence of characters.
WellFormed(str) == \A i \in 1..Len(str) : str[i] # "xFF"

ValidStoredValue(v) == WellFormed(v.Content) /\ WellFormed(v.ContentType)

\* This step is slot c's call of getValue (from handleGet or handleDelete).
GetValueStep(c) == req[c].pc \in {"get", "del_get"} /\ req'[c].pc # req[c].pc

\* Slot c's handler has returned, and with which request.
Done(c) == req[c].pc = "done"

DoneWith(c, method) == Done(c) /\ req[c].method = method /\ req[c].path # ""

\* Slot c's handler has returned from a storeValue that succeeded.
Stored(c) == Done(c) /\ "storeValue" \in req[c].calls /\ req[c].err = "none"

\* The POST body names a non-empty content_type.
HasContentType(doc) ==
    \E i \in 1..Len(doc.members) :
        doc.members[i].name = "content_type" /\ Len(doc.members[i].str) > 0

\* The request fails validation: empty path, a POST body that is not JSON or
\* has no content_type, a PUT body that cannot be read.
ValidationFailure(r) ==
    \/ r.path = ""
    \/ r.method = "POST" /\ (~r.doc.valid \/ ~HasContentType(r.doc))
    \/ r.method = "PUT" /\ r.input.readErr

(***************************************************************************)
(* C1.  Read-after-write: once storeValue(p, v) has succeeded and no other *)
(* put or delete on p has committed since, every getValue(p) that the      *)
(* engine does not fail returns success with a value equal to v in         *)
(* Content, ContentType and Data (byte for byte).                          *)
(***************************************************************************)
C1_ReadAfterWrite ==
    [][\A c \in Conns :
          (/\ GetValueStep(c)
           /\ last[req[c].path].kind = "put"
           /\ req'[c].got.err # "engine")
          => /\ req'[c].got.err = "none"
             /\ req'[c].got.hasValue
             /\ SameValue(req'[c].got.value, last[req[c].path].value)]_vars

\* A GET has read back the four bytes a raw PUT stored at the same path.
C1_Witness ==
    \E c \in Conns :
        /\ DoneWith(c, "GET")
        /\ last[req[c].path].kind = "put"
        /\ last[req[c].path].value = DataValue(<<>>, <<"image/png">>, Bytes(PngBytes))
        /\ req[c].got.err = "none"
        /\ req[c].got.value.Data.bytes = PngBytes
        /\ req[c].got.value.ContentType = <<"image/png">>

(***************************************************************************)
(* C2.  Round trip of the value codec.  As claimed: for every valid        *)
(* StoredValue v (strings of characters), decoding the encoding of v       *)
(* yields v exactly, nil Data staying nil and empty Data staying empty.    *)
(***************************************************************************)
C2_RoundTripExact ==
    (cpc = "decoded" /\ ValidStoredValue(cin)) => (~cdec.err /\ cdec.value = cin)

(***************************************************************************)
(* C2, amended.  For every valid StoredValue v, decoding the encoding of v *)
(* succeeds and yields v's Content, ContentType and Data bytes exactly;    *)
(* a Data of length 0, nil or not, is left out of the encoding and decodes *)
(* as nil.                                                                 *)
(***************************************************************************)
C2_RoundTripUpToEmptyData ==
    (cpc = "decoded" /\ ValidStoredValue(cin))
    => /\ ~cdec.err
       /\ cdec.value.Content = cin.Content
       /\ cdec.value.ContentType = cin.ContentType
       /\ cdec.value.Data.bytes = cin.Data.bytes
       /\ cdec.value.Data.isNil = (Len(cin.Data.bytes) = 0)

\* An empty, non-nil Data beside a Content the encoder escapes came back as
\* nil with the Content intact.
C2_Witness ==
    /\ cpc = "decoded"
    /\ cin = DataValue(<<"\"", "\n">>, <<"text/plain">>, Bytes(<<>>))
    /\ ~cdec.err
    /\ cdec.value.Content = cin.Content
    /\ cdec.value.Data = NilBytes

(***************************************************************************)
(* C3.  Overwrite is last-write-wins with no merge: a storeValue(p, v2)    *)
(* that commits over a value at p leaves exactly the encoding of v2 at p   *)
(* (one current value per path, nothing of the old one) and changes no     *)
(* other key, and a getValue(p) after it returns v2.                       *)
(***************************************************************************)
C3_OverwriteLastWins ==
    [][\A c \in Conns :
          /\ (/\ req[c].pc = "commit"
              /\ req'[c].err = "none"
              /\ db[req[c].path].present)
             => /\ db'[req[c].path] = Present(Marshal(req[c].val))
                /\ \A k \in Keys \ {req[c].path} : db'[k] = db[k]
          /\ (/\ GetValueStep(c)
              /\ last[req[c].path].kind = "put"
              /\ last[req[c].path].replaced
              /\ req'[c].got.err # "engine")
             => /\ req'[c].got.err = "none"
                /\ SameValue(req'[c].got.value, last[req[c].path].value)]_vars

\* The seeded text at docs/readme was overwritten by a raw PUT, and a GET
\* returned the PUT's value: no Content of the old value, the new bytes.
C3_Witness ==
    \E c \in Conns :
        /\ DoneWith(c, "GET")
        /\ req[c].path = "docs/readme"
        /\ last["docs/readme"].kind = "put"
        /\ last["docs/readme"].replaced
        /\ last["docs/readme"].value = DataValue(<<>>, <<"image/png">>, Bytes(PngBytes))
        /\ req[c].got.err = "none"
        /\ req[c].got.value = DataValue(<<>>, <<"image/png">>, Bytes(PngBytes))

(***************************************************************************)
(* C4.  Delete visibility: once deleteValue(p) has succeeded on a stored   *)
(* value and no put on p has committed since, a getValue(p) that the       *)
(* engine does not fail returns ErrKeyNotFound, and the GET handler        *)
(* answers 404.                                                            *)
(***************************************************************************)
C4_DeleteVisibility ==
    [][\A c \in Conns :
          (/\ GetValueStep(c)
           /\ last[req[c].path].kind = "delete"
           /\ req'[c].got.err # "engine")
          => /\ req'[c].got.err = "notfound"
             /\ ~req'[c].got.hasValue
             /\ req[c].pc = "get" => req'[c].resp.status = 404]_vars

\* A GET of the seeded, then deleted docs/readme was answered 404.
C4_Witness ==
    \E c \in Conns :
        /\ DoneWith(c, "GET")
        /\ req[c].path = "docs/readme"
        /\ last["docs/readme"].kind = "delete"
        /\ last["docs/readme"].replaced
        /\ req[c].got.err = "notfound"
        /\ req[c].resp.status = 404

(***************************************************************************)
(* C5.  Missing key: getValue(p) on a path that holds no value (never      *)
(* written, or deleted) returns ErrKeyNotFound and no value, never success *)
(* with an empty value; the GET handler answers 404 for exactly that error *)
(* and 500 for every other getValue error.                                 *)
(***************************************************************************)
C5_MissingKey ==
    [][\A c \in Conns :
          /\ (/\ GetValueStep(c)
              /\ last[req[c].path].kind \in {"none", "delete"}
              /\ req'[c].got.err # "engine")
             => (req'[c].got.err = "notfound" /\ ~req'[c].got.hasValue)
          /\ (req[c].pc = "get" /\ req'[c].pc = "done")
             => /\ (req'[c].resp.status = 404) <=> (req'[c].got.err = "notfound")
                /\ req'[c].got.err \notin {"none", "notfound"}
                   => req'[c].resp.status = 500
                /\ req'[c].got.err # "none" => ~req'[c].got.hasValue]_vars

\* A GET of docs, which nothing ever wrote, was answered 404.
C5_Witness ==
    \E c \in Conns :
        /\ DoneWith(c, "GET")
        /\ req[c].path = "docs"
        /\ last["docs"].kind = "none"
        /\ req[c].got = Failed("notfound")
        /\ req[c].resp.status = 404

\* A GET whose read the engine failed was answered 500.
C5_WitnessOtherError ==
    \E c \in Conns :
        DoneWith(c, "GET") /\ req[c].got.err = "engine" /\ req[c].resp.status = 500

(***************************************************************************)
(* C6.  Concurrent puts to one path: two storeValue calls on the same path *)
(* never block each other, and once both have returned success, getValue   *)
(* of that path decodes without error to exactly one of the two values:    *)
(* the stored document is the encoding of one of them, never a mixture.    *)
(***************************************************************************)
C6_ConcurrentPuts ==
    \A c, d \in Conns :
        /\ (/\ c # d
            /\ req[c].pc = "update" /\ req[d].pc \in {"update", "commit"}
            /\ req[c].path = req[d].path)
           => ENABLED StoreTxn(c)
        /\ (/\ c # d
            /\ req[c].pc = "commit" /\ req[d].pc \in {"update", "commit"}
            /\ req[c].path = req[d].path)
           => ENABLED StoreCommit(c)
        /\ (c # d /\ Stored(c) /\ Stored(d) /\ req[c].path = req[d].path)
           => LET g == getValue(db, req[c].path, FALSE)
              IN  /\ g.err = "none"
                  /\ SameValue(g.value, req[c].val) \/ SameValue(g.value, req[d].val)
                  /\ db[req[c].path].doc \in {Marshal(req[c].val), Marshal(req[d].val)}

\* Two puts of different values to docs/readme ran at the same time, both
\* returned success, and the one in slot c1 committed last.
C6_Witness ==
    /\ Stored("c1") /\ Stored("c2")
    /\ req["c1"].overlap /\ req["c2"].overlap
    /\ req["c1"].path = "docs/readme" /\ req["c2"].path = "docs/readme"
    /\ req["c1"].val = DataValue(<<"# hi">>, <<"text/markdown">>, NilBytes)
    /\ req["c2"].val = DataValue(<<"logo">>, <<"image/png">>, Bytes(PngBytes))
    /\ getValue(db, "docs/readme", FALSE).value = req["c1"].val

(***************************************************************************)
(* C7.  The DELETE handler checks existence first: on a path that holds no *)
(* value it answers 404 and never calls deleteValue; on a path that holds  *)
(* a value it calls deleteValue and, the engine not failing, answers       *)
(* success; so a second DELETE after a successful one, with no put in      *)
(* between, gets ErrKeyNotFound from getValue and does not call            *)
(* deleteValue.                                                            *)
(***************************************************************************)
C7_DeletePreCheck ==
    [][\A c \in Conns :
          /\ (req[c].pc = "del_get" /\ req'[c].pc # "del_get"
              /\ req'[c].got.err # "engine")
             => IF last[req[c].path].kind \in {"none", "delete"}
                THEN /\ req'[c].got.err = "notfound"
                     /\ req'[c].pc = "done"
                     /\ req'[c].resp.status = 404
                     /\ "deleteValue" \notin req'[c].calls
                ELSE /\ req'[c].got.err = "none"
                     /\ req'[c].pc = "del_update"
          /\ (req[c].pc = "del_update" /\ req'[c].pc # "del_update")
             => "deleteValue" \in req'[c].calls
          /\ (req[c].pc \in {"del_update", "del_commit"} /\ req'[c].pc = "done")
             => req'[c].resp.status = IF req'[c].err = "none" THEN 200 ELSE 500
          /\ (req'[c].pc = "done" /\ req'[c].method = "DELETE"
              /\ req'[c].resp.status = 404)
             => "deleteValue" \notin req'[c].calls]_vars

\* A DELETE of docs/readme after a DELETE that removed it: 404, and
\* deleteValue was not called.
C7_Witness ==
    \E c \in Conns :
        /\ DoneWith(c, "DELETE")
        /\ req[c].path = "docs/readme"
        /\ last["docs/readme"].kind = "delete"
        /\ req[c].got.err = "notfound"
        /\ req[c].resp.status = 404
        /\ req[c].calls = {"getValue"}

\* A DELETE of the seeded docs/readme called deleteValue and answered 200.
C7_WitnessExisting ==
    \E c \in Conns :
        /\ DoneWith(c, "DELETE")
        /\ req[c].calls = {"getValue", "deleteValue"}
        /\ req[c].resp.status = 200
        /\ ~db[req[c].path].present

C9_ContentPrecedence ==
    [][\A c \in Conns :
          (/\ req[c].pc = "get"
           /\ req'[c].pc = "done"
           /\ req'[c].got.err = "none")
          => LET stored == last[req[c].path].value
             IN  /\ last[req[c].path].kind = "put"
                 /\ req'[c].resp.status = 200
                 /\ req'[c].resp.ctype = stored.ContentType
                 /\ IF Len(stored.Data.bytes) > 0
                    THEN req'[c].resp.bytes = stored.Data.bytes /\ req'[c].resp.text = <<>>
                    ELSE req'[c].resp.text = stored.Content /\ req'[c].resp.bytes = <<>>]_vars

\* A value stored with both Content and Data was served as its Data.
C9_Witness ==
    \E c \in Conns :
        /\ DoneWith(c, "GET")
        /\ last[req[c].path].value =
              DataValue(<<"logo">>, <<"image/png">>, Bytes(PngBytes))
        /\ req[c].got.value.Content = <<"logo">>
        /\ req[c].resp.status = 200
        /\ req[c].resp.bytes = PngBytes
        /\ req[c].resp.text = <<>>
        /\ req[c].resp.ctype = <<"image/png">>

\* A value stored with Content and an empty Data was served as its Content.
C9_WitnessText ==
    \E c \in Conns :
        /\ DoneWith(c, "GET")
        /\ req[c].got.err = "none"
        /\ Len(req[c].got.value.Content) > 0
        /\ req[c].resp.text = req[c].got.value.Content

(***************************************************************************)
(* C10.  Stored content type is never empty: every value in the store      *)
(* decodes to a non-empty ContentType; a POST with an empty content_type   *)
(* is answered 400 without a call of storeValue, and a raw PUT without a   *)
(* Content-Type header stores application/octet-stream.                    *)
(***************************************************************************)
C10_ContentTypeNeverEmpty ==
    /\ \A k \in Keys :
        db[k].present =>
            LET u == Unmarshal(db[k].doc)
            IN  ~u.err /\ Len(u.value.ContentType) > 0
    /\ \A c \in Conns :
        /\ (DoneWith(c, "POST") /\ ~HasContentType(req[c].doc))
           => (req[c].resp.status = 400 /\ "storeValue" \notin req[c].calls)
        /\ (req[c].method = "PUT" /\ req[c].path # "" /\ ~req[c].input.readErr
            /\ Len(req[c].input.header) = 0)
           => /\ req[c].val.ContentType = OctetStream
              /\ req[c].pending.kind = "set"
                 => Unmarshal(req[c].pending.doc).value.ContentType = OctetStream

\* A raw PUT without a Content-Type header committed, and the store holds
\* application/octet-stream at its path.
C10_Witness ==
    \E c \in Conns :
        /\ Stored(c)
        /\ req[c].method = "PUT"
        /\ Len(req[c].input.header) = 0
        /\ db[req[c].path].present
        /\ Unmarshal(db[req[c].path].doc).value.ContentType = OctetStream

(***************************************************************************)
(* C11.  Engine lifecycle: the handle is opened once at startup, and on    *)
(* every path by which the process exits after a successful open (the      *)
(* listener returning an error included) it has been closed exactly once   *)
(* before the exit; no store operation runs after the close.               *)
(***************************************************************************)
C11_EngineLifecycle ==
    /\ handle.opens <= 1
    /\ (phase = "exited" /\ handle.opens = 1) => handle.closes = 1
    /\ handle.closes > 0 => \A c \in Conns : ~InFlight(c)

(***************************************************************************)
(* C12.  A POST whose body is not valid JSON or whose content_type is      *)
(* empty is answered 400 before the store is invoked: the handler has      *)
(* returned when the request has been taken, storeValue is not called for  *)
(* it, and the value or absence at the request's path and at every other   *)
(* path is what it was.                                                    *)
(***************************************************************************)
C12_PostRejectedBeforeStore ==
    [][\A c \in Conns :
          (/\ phase = "serving"
           /\ ops' = ops + 1
           /\ req'[c].method = "POST"
           /\ req'[c].path # ""
           /\ ~req'[c].doc.valid \/ ~HasContentType(req'[c].doc))
          => /\ req'[c].pc = "done"
             /\ req'[c].resp.status = 400
             /\ "storeValue" \notin req'[c].calls
             /\ req'[c].pending = NoWrite
             /\ \A k \in Keys : db'[k] = db[k]]_vars

\* A POST to docs with an empty content_type was answered 400, called
\* nothing, and docs still holds no value.
C12_Witness ==
    \E c \in Conns :
        /\ DoneWith(c, "POST")
        /\ req[c].path = "docs"
        /\ req[c].doc.valid
        /\ ~HasContentType(req[c].doc)
        /\ req[c].resp = HttpError("content_type is required", 400)
        /\ req[c].calls = {}
        /\ ~db["docs"].present

\* A POST whose body is not JSON was answered 400 and called nothing.
C12_WitnessInvalidJson ==
    \E c \in Conns :
        /\ DoneWith(c, "POST")
        /\ ~req[c].doc.valid
        /\ req[c].resp = HttpError("Invalid JSON", 400)
        /\ req[c].calls = {}

(***************************************************************************)
(* C13.  Transactions are all-or-nothing: a storeValue or deleteValue call *)
(* that returns an error leaves every key, its own included, as it was;    *)
(* and every getValue, at any point of any interleaving, returns the       *)
(* complete value of the last committed put, or ErrKeyNotFound when there  *)
(* is none: never the value of a put that has not committed.               *)
(***************************************************************************)
C13_AllOrNothing ==
    [][\A c \in Conns :
          /\ (/\ req[c].pc \in {"update", "commit", "del_update", "del_commit"}
              /\ req'[c].pc = "done"
              /\ req'[c].err \in {"encoding", "engine"})
             => /\ \A k \in Keys : db'[k] = db[k]
                /\ last' = last
          /\ (GetValueStep(c) /\ req'[c].got.err # "engine")
             => LET g == req'[c].got
                    committed == last[req[c].path]
                IN  /\ g.err \in {"none", "notfound"}
                    /\ g.err = "none"
                       => committed.kind = "put" /\ SameValue(g.value, committed.value)
                    /\ g.err = "notfound" => committed.kind \in {"none", "delete"}
                    /\ \A d \in Conns \ {c} :
                          (/\ req[d].pending.kind = "set"
                           /\ req[d].pending.key = req[c].path
                           /\ committed.kind = "put"
                              => ~SameValue(req[d].val, committed.value))
                          => ~(g.err = "none" /\ SameValue(g.value, req[d].val))]_vars

\* While a PUT to docs/readme had buffered its write and not yet committed,
\* a GET of docs/readme returned the seeded value.
C13_Witness ==
    /\ req["c1"].pc = "commit"
    /\ req["c1"].pending.kind = "set"
    /\ req["c1"].pending.key = "docs/readme"
    /\ DoneWith("c2", "GET")
    /\ req["c2"].path = "docs/readme"
    /\ req["c2"].overlap
    /\ req["c2"].got.err = "none"
    /\ req["c2"].got.value = samples("docs/readme")
    /\ ~SameValue(req["c1"].val, samples("docs/readme"))

\* A PUT to docs/readme whose commit the engine failed answered 500 and the
\* seeded value is still there; a DELETE likewise.
C13_WitnessFailedCommit ==
    \E c \in Conns :
        /\ Done(c)
        /\ req[c].path = "docs/readme"
        /\ req[c].calls \cap {"storeValue", "deleteValue"} # {}
        /\ req[c].err = "engine"
        /\ req[c].resp.status = 500
        /\ db["docs/readme"] = Present(Marshal(samples("docs/readme")))

(***************************************************************************)
(* C14.  get has no side effects: a getValue call and the whole GET        *)
(* handler, whether they end with a value, with ErrKeyNotFound or with     *)
(* another error, leave the store unchanged at every path: no key is       *)
(* created, replaced or removed, and the handler buffers no write.         *)
(***************************************************************************)
C14_GetNoSideEffects ==
    [][\A c \in Conns :
          /\ GetValueStep(c)
             => /\ \A k \in Keys : db'[k] = db[k]
                /\ req'[c].pending = NoWrite
          /\ req[c].pc = "get" /\ req'[c].pc # "get"
             => /\ req'[c].pc = "done"
                /\ req'[c].calls = {"getValue"}
                /\ req'[c].got.err \in {"none", "notfound", "decode", "engine"}
                /\ \A k \in Keys : db'[k] = db[k]]_vars

\* A GET of docs, which holds nothing, was answered 404 and docs still
\* holds nothing.
C14_Witness ==
    \E c \in Conns :
        /\ DoneWith(c, "GET")
        /\ req[c].path = "docs"
        /\ req[c].got.err = "notfound"
        /\ req[c].calls = {"getValue"}
        /\ \A d \in Conns \ {c} : ~InFlight(d)
        /\ ~db["docs"].present
        /\ \A k \in SampleKeys : db[k] = Present(Marshal(samples(k)))

\* A GET that returned the seeded value, and a GET the engine failed, each
\* left the seeded store as it was.
C14_WitnessOtherOutcomes ==
    \E c \in Conns :
        /\ DoneWith(c, "GET")
        /\ req[c].path = "docs/readme"
        /\ req[c].got.err \in {"none", "engine"}
        /\ \A d \in Conns \ {c} : ~InFlight(d)
        /\ ops = 1
        /\ ~db["docs"].present
        /\ \A k \in SampleKeys : db[k] = Present(Marshal(samples(k)))

(***************************************************************************)
(* C15.  Path keys are independent and flat: storeValue(p, v) and          *)
(* deleteValue(p) change only the entry at exactly p; every other path,    *)
(* those p is a prefix of and those that are prefixes of p included, keeps *)
(* its value or absence.  Per path the only transitions are absent to      *)
(* present and present to present by a put, and present to absent by a     *)
(* delete.                                                                 *)
(***************************************************************************)
C15_FlatKeys ==
    [][/\ \A c \in Conns :
            /\ (req[c].pc = "commit" /\ req'[c].err = "none")
               => /\ db'[req[c].path] = Present(req[c].pending.doc)
                  /\ \A q \in Keys \ {req[c].path} : db'[q] = db[q]
            /\ (req[c].pc = "del_commit" /\ req'[c].err = "none")
               => /\ db'[req[c].path] = Absent
                  /\ \A q \in Keys \ {req[c].path} : db'[q] = db[q]
       /\ \A k \in Keys :
            db'[k] # db[k]
            => /\ \A q \in Keys \ {k} : db'[q] = db[q]
               /\ \/ /\ db'[k].present
                     /\ last'[k].kind = "put"
                     /\ \/ \E c \in Conns : req[c].pc = "commit" /\ req[c].path = k
                        \/ phase = "seeding" /\ k \in seeded' \ seeded
                  \/ /\ db[k].present /\ ~db'[k].present
                     /\ last'[k].kind = "delete"
                     /\ \E c \in Conns : req[c].pc = "del_commit" /\ req[c].path = k]_vars

\* docs was stored and then deleted while docs/readme, of which docs is a
\* prefix, kept the seeded value throughout.
C15_Witness ==
    \E c \in Conns :
        /\ DoneWith(c, "DELETE")
        /\ req[c].path = "docs"
        /\ req[c].resp.status = 200
        /\ last["docs"] = [kind |-> "delete", value |-> ZeroDataValue, replaced |-> TRUE]
        /\ ~db["docs"].present
        /\ ~last["docs/readme"].replaced
        /\ db["docs/readme"] = Present(Marshal(samples("docs/readme")))

\* docs/readme was overwritten while docs, a prefix of it, holds a value of
\* its own.
C15_WitnessLongerKey ==
    \E c \in Conns :
        /\ Stored(c)
        /\ req[c].path = "docs/readme"
        /\ db["docs"].present
        /\ db["docs"].doc # db["docs/readme"].doc

(***************************************************************************)
(* C16.  The non-empty path precondition is enforced: a request whose path *)
(* is empty is answered 400 without any store operation, so in every state *)
(* reached through the handlers and the sample seeding the store holds no  *)
(* entry under the empty key.                                              *)
(***************************************************************************)
C16_NoEmptyKey ==
    /\ ~db[""].present
    /\ last[""].kind = "none"
    /\ \A c \in Conns :
        (req[c].pc # "idle" /\ req[c].path = "")
        => /\ req[c].pc = "done"
           /\ req[c].resp = HttpError("Path is required", 400)
           /\ req[c].calls = {}
           /\ req[c].pending = NoWrite

\* A POST with the empty path and a body that any other path would store
\* was answered 400 and called nothing.
C16_Witness ==
    \E c \in Conns :
        /\ Done(c)
        /\ req[c].path = ""
        /\ req[c].method = "POST"
        /\ Storable(req[c].method, req[c].doc, req[c].input)
        /\ req[c].resp.status = 400
        /\ req[c].calls = {}
        /\ phase = "serving"
        /\ \A k \in SampleKeys : db[k].present

(***************************************************************************)
(* C17.  Check-then-delete is atomic: in every interleaving of requests on *)
(* one path, a DELETE that answers success removed a value that was        *)
(* present when its delete transaction committed; so of two DELETE         *)
(* requests running at the same time on a path, at most one answers        *)
(* success.                                                                *)
(***************************************************************************)
C17_CheckThenDeleteAtomic ==
    [][\A c \in Conns :
          (req[c].pc = "del_commit" /\ req'[c].pc = "done" /\ req'[c].resp.status = 200)
          => /\ db[req[c].path].present
             /\ \A d \in Conns \ {c} :
                   (/\ DoneWith(d, "DELETE")
                    /\ req[d].path = req[c].path
                    /\ req[d].overlap /\ req[c].overlap
                    /\ last[req[c].path].kind = "delete")
                   => req[d].resp.status # 200]_vars

(***************************************************************************)
(* C18.  Durability across restart: the contents of the store survive a    *)
(* restart of the process unchanged.  For every path, the sample paths     *)
(* included, GET right after the restart gives what it gave right before   *)
(* the exit: from the exit until the restarted process serves again, no    *)
(* step changes what getValue returns for any path.                        *)
(***************************************************************************)
C18_SurvivesRestart ==
    [][(boots' > 1 /\ phase # "serving" /\ ~faulted')
       => \A p \in Keys :
             getValue(db', p, FALSE) = getValue(db, p, FALSE)]_vars

====
